---- MODULE Spec2Model ----
(***************************************************************************)
(* Model of scripts/claude_code_run.py: the helper that runs the `claude`  *)
(* CLI either headless (one blocking child process) or interactively in a  *)
(* detached tmux session.                                                  *)
(*                                                                         *)
(* Text is modelled as what it is, a sequence of characters: a Python str  *)
(* is a tuple of one-character strings, so splitlines, lstrip, shlex.quote *)
(* and substring search are computed, not assumed.  An argument vector is  *)
(* a sequence of such texts.                                               *)
(***************************************************************************)
EXTENDS Integers, Sequences, FiniteSets, Bags, TLC

VARIABLES
    cfg,        \* [Procs -> the argparse Namespace (plus os.environ) of an invocation]
    pc,         \* [Procs -> the statement the invocation is at]
    rc,         \* [Procs -> main's return value, RUNNING until it returns]
    exc,        \* [Procs -> the exception that ended the invocation, "none" otherwise]
    obs,        \* [Procs -> what tmux_wait_for told the invocation]
    log,        \* [Procs -> the external operations the invocation has issued, in order]
    poll,       \* [Procs -> the locals of the tmux_wait_for call in progress]
    todo,       \* [Procs -> the prompt lines still to be typed]
    runs,       \* [Procs -> how many times the program has been invoked]
    sessions,   \* the tmux servers: a bag of live <<socket path, session name>>
    host,       \* the machine: its os.name, the files on disk, the search path
    captureMs,  \* the durations (ms) one capture-pane call may take on this machine
    out         \* the result record of the pure functions, NoOutput before they ran

vars == <<cfg, pc, rc, exc, obs, log, poll, todo, runs, sessions, host, captureMs, out>>

Procs == {"a", "b"}

(***************************************************************************)
(* Text literals of the source.                                            *)
(***************************************************************************)
\* "--permission-mode"
OPT_PERMISSION_MODE ==
    <<"-", "-", "p", "e", "r", "m", "i", "s", "s", "i", "o", "n", "-", "m", "o", "d", "e">>
\* "--allowedTools"
OPT_ALLOWED_TOOLS ==
    <<"-", "-", "a", "l", "l", "o", "w", "e", "d", "T", "o", "o", "l", "s">>
\* "--output-format"
OPT_OUTPUT_FORMAT ==
    <<"-", "-", "o", "u", "t", "p", "u", "t", "-", "f", "o", "r", "m", "a", "t">>
\* "--json-schema"
OPT_JSON_SCHEMA ==
    <<"-", "-", "j", "s", "o", "n", "-", "s", "c", "h", "e", "m", "a">>
\* "--append-system-prompt"
OPT_APPEND_SYSTEM_PROMPT ==
    <<"-", "-", "a", "p", "p", "e", "n", "d", "-", "s", "y", "s", "t", "e", "m", "-", "p", "r", "o", "m", "p", "t">>
\* "--system-prompt"
OPT_SYSTEM_PROMPT ==
    <<"-", "-", "s", "y", "s", "t", "e", "m", "-", "p", "r", "o", "m", "p", "t">>
\* "--continue"
OPT_CONTINUE ==
    <<"-", "-", "c", "o", "n", "t", "i", "n", "u", "e">>
\* "--resume"
OPT_RESUME ==
    <<"-", "-", "r", "e", "s", "u", "m", "e">>
\* "-p"
OPT_P ==
    <<"-", "p">>
\* "trust this folder"
TRUST_NEEDLE ==
    <<"t", "r", "u", "s", "t", " ", "t", "h", "i", "s", " ", "f", "o", "l", "d", "e", "r">>
\* "json"
STR_JSON ==
    <<"j", "s", "o", "n">>
\* "summarize"
STR_SUMMARIZE ==
    <<"s", "u", "m", "m", "a", "r", "i", "z", "e">>
\* "claude"
STR_CLAUDE ==
    <<"c", "l", "a", "u", "d", "e">>
\* the path shutil.which("script") returns when it finds one
STR_SCRIPT ==
    <<"/", "u", "s", "r", "/", "b", "i", "n", "/", "s", "c", "r", "i", "p", "t">>
\* "-q"
STR_Q ==
    <<"-", "q">>
\* "-c"
STR_C ==
    <<"-", "c">>
\* "/dev/null"
STR_DEV_NULL ==
    <<"/", "d", "e", "v", "/", "n", "u", "l", "l">>
\* "/tmp"
STR_TMP ==
    <<"/", "t", "m", "p">>
\* "/clawdbot-tmux-sockets"
STR_SOCKETS_SUFFIX ==
    <<"/", "c", "l", "a", "w", "d", "b", "o", "t", "-", "t", "m", "u", "x", "-", "s", "o", "c", "k", "e", "t", "s">>
\* "claude-code.sock"
STR_SOCK_NAME ==
    <<"c", "l", "a", "u", "d", "e", "-", "c", "o", "d", "e", ".", "s", "o", "c", "k">>
\* "cd "
STR_CD ==
    <<"c", "d", " ">>
\* " && "
STR_AND ==
    <<" ", "&", "&", " ">>
\* the five characters '"'"' that shlex.quote puts for a single quote
STR_QUOTE_ESC ==
    <<"'", "\"", "'", "\"", "'">>

\* Python's None.  No text equals it: a text has one-character elements only.
None == <<"None">>

\* Python truthiness of an optional text: neither None nor "".
Truthy(s) == s # None /\ s # <<>>

(***************************************************************************)
(* str methods, as CPython computes them on the characters used here.      *)
(***************************************************************************)
\* str.isspace() of one character (the ASCII ones of the model's alphabet).
IsSpace(c) == c \in {" ", "\t", "\n", "\r", "\f"}

\* The characters at which str.splitlines() ends a line.
IsLineBreak(c) == c \in {"\n", "\r", "\f"}

RECURSIVE SplitFrom(_, _, _)
\* splitlines(): the lines of s from position i on, cur being the line read so far.
\* "\r\n" is one line break; a final line break opens no further line.
SplitFrom(s, i, cur) ==
    IF i > Len(s) THEN (IF cur = <<>> THEN <<>> ELSE <<cur>>)
    ELSE IF IsLineBreak(s[i])
         THEN LET skip == IF s[i] = "\r" /\ i < Len(s) /\ s[i + 1] = "\n" THEN 2 ELSE 1
              IN  <<cur>> \o SplitFrom(s, i + skip, <<>>)
         ELSE SplitFrom(s, i + 1, Append(cur, s[i]))

SplitLines(s) == SplitFrom(s, 1, <<>>)

RECURSIVE LStrip(_)
\* str.lstrip(): s without its leading whitespace.
LStrip(s) ==
    IF s # <<>> /\ IsSpace(Head(s)) THEN LStrip(Tail(s)) ELSE s

\* bool(ln.strip()): the line holds a character that is not whitespace.
NonBlank(ln) == \E i \in 1..Len(ln) : ~IsSpace(ln[i])

\* str.startswith(prefix).
StartsWith(s, prefix) ==
    Len(s) >= Len(prefix) /\ SubSeq(s, 1, Len(prefix)) = prefix

\* `needle in text`: needle is a contiguous part of text.
Contains(text, needle) ==
    \E i \in 1..(Len(text) - Len(needle) + 1) :
        SubSeq(text, i, i + Len(needle) - 1) = needle

RECURSIVE Concat(_)
\* The concatenation of a sequence of sequences.
Concat(ss) == IF ss = <<>> THEN <<>> ELSE Head(ss) \o Concat(Tail(ss))

(***************************************************************************)
(* looks_like_slash_commands and the mode chosen by main.                  *)
(***************************************************************************)
\* A mutant of looks_like_slash_commands: the lines are not lstripped.
looks_like_slash_commands_nostrip(prompt) ==
    IF ~Truthy(prompt) THEN FALSE
    ELSE LET lines == SplitLines(prompt)
         IN  \E k \in 1..Len(lines) : StartsWith(lines[k], <<"/">>)

looks_like_slash_commands(prompt) ==
    IF ~Truthy(prompt) THEN FALSE
    ELSE LET lines == SplitLines(prompt)
         IN  \E k \in 1..Len(lines) : StartsWith(LStrip(lines[k]), <<"/">>)

\* main, lines 220-224: the mode the run is dispatched in ("interactive", or
\* anything else, which runs headless).
SelectMode(args) ==
    IF args.mode = "auto" /\ looks_like_slash_commands(args.prompt)
    THEN "interactive"
    ELSE args.mode

\* main, lines 224-227: the runner main dispatches to.
Dispatch(args) == IF SelectMode(args) = "interactive" THEN "interactive" ELSE "headless"

\* run_interactive, line 161: the lines of the prompt that are typed.
PromptLines(prompt) ==
    IF ~Truthy(prompt) THEN <<>>
    ELSE SelectSeq(SplitLines(prompt), NonBlank)

(***************************************************************************)
(* build_cmd, and the vector run_interactive builds for its launch line.   *)
(***************************************************************************)
\* cmd += [flag, value] if value (lines 42-58, 63-64).
Opt(flag, value) == IF Truthy(value) THEN <<flag, value>> ELSE <<>>

\* A mutant of build_cmd: --resume is emitted before --continue.
build_cmd_resume_first(args) ==
    <<args.claude_bin>>
        \o Opt(OPT_PERMISSION_MODE, args.permission_mode)
        \o Opt(OPT_ALLOWED_TOOLS, args.allowed_tools)
        \o Opt(OPT_OUTPUT_FORMAT, args.output_format)
        \o Opt(OPT_JSON_SCHEMA, args.json_schema)
        \o Opt(OPT_APPEND_SYSTEM_PROMPT, args.append_system_prompt)
        \o Opt(OPT_SYSTEM_PROMPT, args.system_prompt)
        \o Opt(OPT_RESUME, args.resume)
        \o (IF args.continue_latest THEN <<OPT_CONTINUE>> ELSE <<>>)
        \o (IF args.prompt # None THEN <<OPT_P, args.prompt>> ELSE <<>>)
        \o args.extra

\* A mutant of build_cmd: --resume is emitted whenever resume is not None,
\* the empty string included.
build_cmd_resume_placeholder(args) ==
    <<args.claude_bin>>
        \o Opt(OPT_PERMISSION_MODE, args.permission_mode)
        \o Opt(OPT_ALLOWED_TOOLS, args.allowed_tools)
        \o Opt(OPT_OUTPUT_FORMAT, args.output_format)
        \o Opt(OPT_JSON_SCHEMA, args.json_schema)
        \o Opt(OPT_APPEND_SYSTEM_PROMPT, args.append_system_prompt)
        \o Opt(OPT_SYSTEM_PROMPT, args.system_prompt)
        \o (IF args.continue_latest THEN <<OPT_CONTINUE>> ELSE <<>>)
        \o (IF args.resume # None THEN <<OPT_RESUME, args.resume>> ELSE <<>>)
        \o (IF args.prompt # None THEN <<OPT_P, args.prompt>> ELSE <<>>)
        \o args.extra

build_cmd(args) ==
    <<args.claude_bin>>
        \o Opt(OPT_PERMISSION_MODE, args.permission_mode)
        \o Opt(OPT_ALLOWED_TOOLS, args.allowed_tools)
        \o Opt(OPT_OUTPUT_FORMAT, args.output_format)
        \o Opt(OPT_JSON_SCHEMA, args.json_schema)
        \o Opt(OPT_APPEND_SYSTEM_PROMPT, args.append_system_prompt)
        \o Opt(OPT_SYSTEM_PROMPT, args.system_prompt)
        \o (IF args.continue_latest THEN <<OPT_CONTINUE>> ELSE <<>>)
        \o Opt(OPT_RESUME, args.resume)
        \o (IF args.prompt # None THEN <<OPT_P, args.prompt>> ELSE <<>>)
        \o args.extra

\* A mutant of interactive_base: the output format is passed on as well.
interactive_base_with_format(args) ==
    <<args.claude_bin>>
        \o Opt(OPT_PERMISSION_MODE, args.permission_mode)
        \o Opt(OPT_ALLOWED_TOOLS, args.allowed_tools)
        \o Opt(OPT_OUTPUT_FORMAT, args.output_format)
        \o Opt(OPT_APPEND_SYSTEM_PROMPT, args.append_system_prompt)
        \o Opt(OPT_SYSTEM_PROMPT, args.system_prompt)
        \o (IF args.continue_latest THEN <<OPT_CONTINUE>> ELSE <<>>)
        \o Opt(OPT_RESUME, args.resume)
        \o args.extra

\* run_interactive, lines 135-149: the vector of the launch line.
interactive_base(args) ==
    <<args.claude_bin>>
        \o Opt(OPT_PERMISSION_MODE, args.permission_mode)
        \o Opt(OPT_ALLOWED_TOOLS, args.allowed_tools)
        \o Opt(OPT_APPEND_SYSTEM_PROMPT, args.append_system_prompt)
        \o Opt(OPT_SYSTEM_PROMPT, args.system_prompt)
        \o (IF args.continue_latest THEN <<OPT_CONTINUE>> ELSE <<>>)
        \o Opt(OPT_RESUME, args.resume)
        \o args.extra

(***************************************************************************)
(* shlex.quote and the command lines built with it.                        *)
(***************************************************************************)
\* The characters shlex.quote leaves alone: [A-Za-z0-9_@%+=:,./-].
SafeChars ==
    {
     "a", "b", "c", "d", "e", "f", "g", "h", "i", "j", "k", "l", "m", "n",
     "o", "p", "q", "r", "s", "t", "u", "v", "w", "x", "y", "z", "A", "B",
     "C", "D", "E", "F", "G", "H", "I", "J", "K", "L", "M", "N", "O", "P",
     "Q", "R", "S", "T", "U", "V", "W", "X", "Y", "Z", "0", "1", "2", "3",
     "4", "5", "6", "7", "8", "9", "_", "@", "%", "+", "=", ":", ",", ".",
     "/", "-"
    }

\* s.replace("'", "'\"'\"'").
EscapeQuotes(s) ==
    Concat([i \in 1..Len(s) |-> IF s[i] = "'" THEN STR_QUOTE_ESC ELSE <<s[i]>>])

\* shlex.quote(s).
ShlexQuote(s) ==
    IF s = <<>> THEN <<"'", "'">>
    ELSE IF \A i \in 1..Len(s) : s[i] \in SafeChars THEN s
    ELSE <<"'">> \o EscapeQuotes(s) \o <<"'">>

\* " ".join(shlex.quote(part) for part in argv).
JoinQuoted(argv) ==
    Concat([i \in 1..Len(argv) |->
               (IF i = 1 THEN <<>> ELSE <<" ">>) \o ShlexQuote(argv[i])])

\* run_interactive, lines 133 and 151: the line typed to start the program.
LaunchLine(args) ==
    STR_CD \o ShlexQuote(IF Truthy(args.cwd) THEN args.cwd ELSE args.environ_cwd)
        \o STR_AND \o JoinQuoted(interactive_base(args))

\* run_headless, lines 76-84: the vector handed to subprocess.run; nt is
\* os.name == "nt", script_bin what shutil.which("script") returned.
HeadlessArgv(cmd, nt, script_bin) ==
    IF nt \/ ~Truthy(script_bin) THEN cmd
    ELSE <<script_bin, STR_Q, STR_C, JoinQuoted(cmd), STR_DEV_NULL>>

(***************************************************************************)
(* Socket and session addressing.                                          *)
(***************************************************************************)
\* run_interactive, lines 119-123: the `or` chain that picks the directory.
SocketDir(args) ==
    IF Truthy(args.tmux_socket_dir) THEN args.tmux_socket_dir
    ELSE IF Truthy(args.environ_socket_dir) THEN args.environ_socket_dir
    ELSE (IF args.environ_tmpdir = None THEN STR_TMP ELSE args.environ_tmpdir)
             \o STR_SOCKETS_SUFFIX

\* run_interactive, line 125: Path(socket_dir) / name (an absolute name
\* replaces the directory).
SocketPath(args) ==
    IF StartsWith(args.tmux_socket_name, <<"/">>) THEN args.tmux_socket_name
    ELSE SocketDir(args) \o <<"/">> \o args.tmux_socket_name

\* run_interactive, line 128: f"{session}:0.0".
Target(args) == args.tmux_session \o <<":", "0", ".", "0">>

\* The session a pane target names: the text before its first colon.
TargetSession(target) ==
    LET colons == {i \in 1..Len(target) : target[i] = ":"}
    IN  IF colons = {} THEN target
        ELSE SubSeq(target, 1, (CHOOSE i \in colons : \A j \in colons : i <= j) - 1)

\* The key of an invocation's session on the tmux servers.
SessionKey(args) == <<SocketPath(args), args.tmux_session>>

(***************************************************************************)
(* The tmux server behind a socket, as the program relies on it.           *)
(***************************************************************************)
Live(ss, key) == CopiesIn(key, ss)

\* A mutant of TmuxKill: no kill-session is issued.
TmuxKill_skipped(ss, key) == ss

\* The sessions a target "-t name" names on a socket, as tmux resolves it:
\* the session of exactly that name when it is live, otherwise the one
\* session whose name begins with it; none when several or no names do.
Matches(ss, key) ==
    IF Live(ss, key) > 0 THEN {key}
    ELSE LET m == {k \in DOMAIN ss : k[1] = key[1] /\ StartsWith(k[2], key[2])}
         IN  IF Cardinality(m) = 1 THEN m ELSE {}

\* kill-session -t name: the session the target names on that socket ends.
TmuxKill(ss, key) == [k \in (DOMAIN ss) \ Matches(ss, key) |-> ss[k]]

\* A mutant of TmuxCanCreate: the session is created under a live name too.
TmuxCanCreate_always(ss, key) == TRUE

\* new-session -s name refuses a name that is live on the socket.
TmuxCanCreate(ss, key) == Live(ss, key) = 0

\* new-session -d -s name: one more session of that name.
TmuxCreate(ss, key) == ss (+) SetToBag({key})

(***************************************************************************)
(* Program constants.                                                      *)
(***************************************************************************)
\* tmux_wait_for(..., timeout_s=20), line 156.
TRUST_TIMEOUT_S == 20
\* time.sleep(0.5), line 106, in milliseconds.
POLL_SLEEP_MS == 500
\* time.sleep(1), line 158, in milliseconds.
TRUST_SETTLE_MS == 1000
\* --interactive-send-delay-ms default, line 205.
DEFAULT_SEND_DELAY_MS == 800
\* return 2, lines 113, 117 and 218.
EXIT_PRECONDITION == 2
\* The exit status of the interpreter when main raises.
EXIT_UNCAUGHT == 1

\* rc of an invocation that has not returned.
RUNNING == "running"

(***************************************************************************)
(* The state of one invocation.                                            *)
(***************************************************************************)
\* ap.parse_args() with nothing given (lines 184-207), in a process whose
\* environment sets none of the variables the program reads.
DefaultArgs ==
    [ prompt |-> None, mode |-> "auto",
      permission_mode |-> None, allowed_tools |-> None,
      output_format |-> None, json_schema |-> None,
      append_system_prompt |-> None, system_prompt |-> None,
      continue_latest |-> FALSE, resume |-> None,
      claude_bin |-> STR_CLAUDE, cwd |-> None,
      tmux_session |-> <<"c", "c">>, tmux_socket_dir |-> None,
      tmux_socket_name |-> STR_SOCK_NAME,
      interactive_wait_s |-> 0,
      interactive_send_delay_ms |-> DEFAULT_SEND_DELAY_MS,
      extra |-> <<>>,
      environ_socket_dir |-> None, environ_tmpdir |-> None,
      environ_cwd |-> <<"/", "w">> ]

\* tmux_wait_for has not returned to run_interactive: "?", then "yes" or "no".
NoObs == [trust |-> "?"]

\* "tmux" and "script", the names looked for on the search path.
STR_TMUX ==
    <<"t", "m", "u", "x">>
STR_SCRIPT_NAME ==
    <<"s", "c", "r", "i", "p", "t">>

\* Whether a tmux server serves a request: always, or not always.
Serving == IF host.flaky THEN BOOLEAN ELSE {TRUE}

\* Path(path).exists() and shutil.which(name) on the machine.
PathExists(path) == path \in host.files
Which(name) == name \in host.onpath

\* What tmux_capture did when it raised, and the mark of "no capture yet".
CAPTURE_FAILED == <<"CalledProcessError">>
NO_CAPTURE == <<"no capture">>

\* No tmux_wait_for call in progress.  In a call: its arguments, its local
\* deadline, the clock (ms since the call began), and what it did so far:
\* how many captures and sleeps, how many captures held the needle, when
\* the last capture began and what it returned.
NoPoll == [active |-> FALSE, caller |-> "none", sock |-> None, target |-> None,
           needle |-> None, timeout_s |-> 0, now |-> 0, deadline |-> 0,
           ncap |-> 0, nsleep |-> 0, hits |-> 0, last |-> NO_CAPTURE,
           lastStart |-> 0,
           result |-> "?"]

\* One entry of log: the operation, the socket and session or pane it was
\* addressed to, its argument, and whether it succeeded.
Op(op, sock, target, arg, ok) ==
    [op |-> op, sock |-> sock, target |-> target, arg |-> arg, ok |-> ok]

\* The operations sent to a tmux server.
TmuxOps == {"kill-session", "new-session", "send-keys-l", "send-keys-Enter",
            "capture-pane"}

\* The entries of a log with a given operation.
OpsOf(l, op) == SelectSeq(l, LAMBDA e : e.op = op)

\* main, lines 211-214: a leading "--" of the pass-through arguments is dropped.
StripSeparator(extra) ==
    IF extra # <<>> /\ Head(extra) = <<"-", "-">> THEN Tail(extra) ELSE extra

\* The statuses a child process may end with (a negative one: killed by a signal).
ExitStatuses == {0, 1, 2, 3, 130, 255, -9}

\* The texts a pane may show while a needle is looked for: two hold it, one
\* misses its last character.
Screens(needle) ==
    { needle, <<"$", " ">> \o needle \o <<"?">>,
      <<"$">> \o SubSeq(needle, 1, Len(needle) - 1) }

(***************************************************************************)
(* The program, one action per statement that touches the outside world.   *)
(***************************************************************************)
Upd(f, p, v) == [f EXCEPT ![p] = v]

\* The invocation ends: main returns code, or raises e and the interpreter
\* exits with EXIT_UNCAUGHT.
Finish(p, code, e) ==
    /\ pc' = Upd(pc, p, "done")
    /\ rc' = Upd(rc, p, code)
    /\ exc' = Upd(exc, p, e)

Goto(p, label) ==
    /\ pc' = Upd(pc, p, label)
    /\ UNCHANGED <<rc, exc>>

Logged(p, e) == log' = Upd(log, p, Append(log[p], e))

\* A mutant of BinMissing: the second `not` is left out.
BinMissing_lost_not(bin) == ~PathExists(bin) /\ Which(bin)

\* main, line 216: the executable is neither on disk nor on the search path.
BinMissing(bin) == ~PathExists(bin) /\ ~Which(bin)

\* main, lines 209-218: the pass-through arguments are normalised and the
\* executable is looked for.
MainCheck(p) ==
    /\ pc[p] = "main"
    /\ cfg' = Upd(cfg, p, [cfg[p] EXCEPT !.extra = StripSeparator(@)])
    /\ IF BinMissing(cfg[p].claude_bin)
       THEN Finish(p, EXIT_PRECONDITION, "none")
       ELSE Goto(p, "dispatch")
    /\ UNCHANGED <<obs, log, poll, todo, runs, sessions, host, captureMs, out>>

\* main, lines 220-227: the runner is chosen.
MainDispatch(p) ==
    /\ pc[p] = "dispatch"
    /\ Goto(p, IF Dispatch(cfg[p]) = "interactive" THEN "ri_platform" ELSE "rh_run")
    /\ UNCHANGED <<cfg, obs, log, poll, todo, runs, sessions, host, captureMs, out>>

\* A mutant of HeadlessResult: every failure is reported as 1.
HeadlessResult_flattened(status) == IF status = 0 THEN 0 ELSE 1

\* run_headless returns int(subprocess.run(...).returncode), lines 77, 81, 84.
HeadlessResult(status) == status

\* run_headless, lines 75-84, and main's return of its result, line 227: one
\* blocking child process, directly or through script(1).
RunHeadless(p) ==
    /\ pc[p] = "rh_run"
    /\ \E status \in ExitStatuses :
          LET argv == HeadlessArgv(build_cmd(cfg[p]), host.os_name = "nt",
                                   IF Which(STR_SCRIPT_NAME) THEN STR_SCRIPT ELSE None)
          IN  /\ Logged(p, Op("spawn", None, cfg[p].cwd, argv, status))
              /\ Finish(p, HeadlessResult(status), "none")
    /\ UNCHANGED <<cfg, obs, poll, todo, runs, sessions, host, captureMs, out>>

\* A mutant of InteractiveUnsupported: tmux is not looked for.
InteractiveUnsupported_no_which == host.os_name = "nt"

\* run_interactive, lines 111 and 115: the platform is Windows, or no tmux
\* is on the search path.
InteractiveUnsupported == host.os_name = "nt" \/ ~Which(STR_TMUX)

\* A mutant of RiPlatform: without tmux the run falls back to headless.
RiPlatform_fallback(p) ==
    /\ pc[p] = "ri_platform"
    /\ Goto(p, IF InteractiveUnsupported THEN "rh_run" ELSE "ri_mkdir")
    /\ UNCHANGED <<cfg, obs, log, poll, todo, runs, sessions, host, captureMs, out>>

\* run_interactive, lines 111-117: the platform and tmux are required.
RiPlatform(p) ==
    /\ pc[p] = "ri_platform"
    /\ IF InteractiveUnsupported
       THEN Finish(p, EXIT_PRECONDITION, "none")
       ELSE Goto(p, "ri_mkdir")
    /\ UNCHANGED <<cfg, obs, log, poll, todo, runs, sessions, host, captureMs, out>>

\* run_interactive, lines 119-125: the socket directory is created; an
\* OSError is not caught.
RiMkdir(p) ==
    /\ pc[p] = "ri_mkdir"
    /\ \E ok \in BOOLEAN :
          /\ Logged(p, Op("mkdir", None, None, SocketDir(cfg[p]), ok))
          /\ IF ok THEN Goto(p, "ri_kill")
                   ELSE Finish(p, EXIT_UNCAUGHT, "OSError")
    /\ UNCHANGED <<cfg, obs, poll, todo, runs, sessions, host, captureMs, out>>

\* run_interactive, line 130: kill-session by subprocess.run, its status and
\* output dropped.
RiKill(p) ==
    /\ pc[p] = "ri_kill"
    /\ Logged(p, Op("kill-session", SocketPath(cfg[p]), cfg[p].tmux_session,
                    None, Matches(sessions, SessionKey(cfg[p])) # {}))
    /\ sessions' = TmuxKill(sessions, SessionKey(cfg[p]))
    /\ Goto(p, "ri_new")
    /\ UNCHANGED <<cfg, obs, poll, todo, runs, host, captureMs, out>>

\* A mutant of RiNew: new-session is run by subprocess.run, its status dropped.
RiNew_unchecked(p) ==
    /\ pc[p] = "ri_new"
    /\ \E serves \in Serving :
          LET key == SessionKey(cfg[p])
              why == IF ~TmuxCanCreate(sessions, key) THEN "duplicate session"
                     ELSE IF ~serves THEN "server error" ELSE "created"
          IN  /\ Logged(p, Op("new-session", SocketPath(cfg[p]),
                              cfg[p].tmux_session, why, why = "created"))
              /\ sessions' = IF why = "created" THEN TmuxCreate(sessions, key)
                             ELSE sessions
              /\ Goto(p, "ri_launch")
    /\ UNCHANGED <<cfg, obs, poll, todo, runs, host, captureMs, out>>

\* run_interactive, line 131: new-session by check_call.  It fails on a live
\* name ("duplicate session") or when the server cannot serve ("server error").
RiNew(p) ==
    /\ pc[p] = "ri_new"
    /\ \E serves \in Serving :
          LET key == SessionKey(cfg[p])
              why == IF ~TmuxCanCreate(sessions, key) THEN "duplicate session"
                     ELSE IF ~serves THEN "server error" ELSE "created"
          IN  /\ Logged(p, Op("new-session", SocketPath(cfg[p]),
                              cfg[p].tmux_session, why, why = "created"))
              /\ IF why = "created"
                 THEN /\ sessions' = TmuxCreate(sessions, key)
                      /\ Goto(p, "ri_launch")
                 ELSE /\ UNCHANGED sessions
                      /\ Finish(p, EXIT_UNCAUGHT, "CalledProcessError")
    /\ UNCHANGED <<cfg, obs, poll, todo, runs, host, captureMs, out>>

\* A send-keys or capture-pane reaches its pane: the server serves and the
\* target names a session on the socket.
Reaches(p, serves) ==
    serves /\ Matches(sessions, <<SocketPath(cfg[p]), TargetSession(Target(cfg[p]))>>) # {}

\* A mutant of SendChecked: the status of send-keys is not looked at.
SendChecked_unchecked(p, from, op, arg, to) ==
    /\ pc[p] = from
    /\ \E serves \in Serving :
          Logged(p, Op(op, SocketPath(cfg[p]), Target(cfg[p]), arg,
                       Reaches(p, serves)))
    /\ Goto(p, to)

\* subprocess.check_call(tmux(socket_path, "send-keys", ...)) at label from:
\* on success the run goes on at label to, a failure is raised.
SendChecked(p, from, op, arg, to) ==
    /\ pc[p] = from
    /\ \E serves \in Serving :
          /\ Logged(p, Op(op, SocketPath(cfg[p]), Target(cfg[p]), arg,
                          Reaches(p, serves)))
          /\ IF Reaches(p, serves) THEN Goto(p, to)
             ELSE Finish(p, EXIT_UNCAUGHT, "CalledProcessError")

\* run_interactive, lines 133-152: the launch line is typed, literally.
RiLaunch(p) ==
    /\ SendChecked(p, "ri_launch", "send-keys-l", LaunchLine(cfg[p]), "ri_launch_enter")
    /\ UNCHANGED <<cfg, obs, poll, todo, runs, sessions, host, captureMs, out>>

\* run_interactive, lines 153 and 156: the launch line is submitted, and
\* tmux_wait_for is called for the trust prompt.
RiLaunchEnter(p) ==
    /\ SendChecked(p, "ri_launch_enter", "send-keys-Enter", None, "wf_begin")
    /\ poll' = Upd(poll, p,
                   IF pc'[p] = "wf_begin"
                   THEN [NoPoll EXCEPT !.active = TRUE, !.caller = "run_interactive",
                                       !.sock = SocketPath(cfg[p]),
                                       !.target = Target(cfg[p]),
                                       !.needle = TRUST_NEEDLE,
                                       !.timeout_s = TRUST_TIMEOUT_S]
                   ELSE poll[p])
    /\ UNCHANGED <<cfg, obs, todo, runs, sessions, host, captureMs, out>>

(***************************************************************************)
(* tmux_wait_for, lines 98-107.  Its clock counts milliseconds from the    *)
(* call; a capture takes one of the durations of captureMs, a sleep its    *)
(* argument.  A round of the loop is one action.                           *)
(***************************************************************************)
\* A mutant of NeedleIn: the capture must equal the needle.
NeedleIn_equal(needle, text) == text = needle

\* line 102: needle in tmux_capture(...).
NeedleIn(needle, text) == Contains(text, needle)

\* A mutant of PollOpen: the loop also runs at the deadline itself.
PollOpen_inclusive(now, deadline) == now <= deadline

\* A mutant of PollOpen: the deadline is never looked at.
PollOpen_forever(now, deadline) == TRUE

\* line 100: while time.time() < deadline.
PollOpen(now, deadline) == now < deadline

\* line 99: deadline = time.time() + timeout_s.
WfBegin(p) ==
    /\ pc[p] = "wf_begin"
    /\ poll' = Upd(poll, p, [poll[p] EXCEPT
                       !.deadline = poll[p].now + 1000 * poll[p].timeout_s])
    /\ Goto(p, "wf_test")
    /\ UNCHANGED <<cfg, obs, log, todo, runs, sessions, host, captureMs, out>>

\* lines 100-106, one round of the loop: before the deadline, one capture.
\* It raises when the server does not serve or the session is gone, which is
\* caught.  A text that holds the needle ends the call with True; otherwise
\* the round ends with time.sleep(0.5).  Of the captures of one call the log
\* keeps the first.
WfCapture(p) ==
    /\ pc[p] = "wf_test"
    /\ PollOpen(poll[p].now, poll[p].deadline)
    /\ \E d \in captureMs, serves \in Serving, text \in Screens(poll[p].needle) :
          LET ok == serves /\ Matches(sessions, <<poll[p].sock,
                                               TargetSession(poll[p].target)>>) # {}
              hit == ok /\ NeedleIn(poll[p].needle, text)
          IN  /\ ~ok => text = poll[p].needle     \* a failed capture returns no text
              /\ poll' = Upd(poll, p, [poll[p] EXCEPT
                                 !.now = @ + d + (IF hit THEN 0 ELSE POLL_SLEEP_MS),
                                 !.lastStart = poll[p].now,
                                 !.ncap = @ + 1,
                                 !.nsleep = @ + (IF hit THEN 0 ELSE 1),
                                 !.hits = @ + (IF ok /\ Contains(text, poll[p].needle)
                                               THEN 1 ELSE 0),
                                 !.last = IF ok THEN text ELSE CAPTURE_FAILED,
                                 !.result = IF hit THEN TRUE ELSE @])
              /\ log' = IF poll[p].ncap = 0
                        THEN Upd(log, p, Append(log[p],
                                 Op("capture-pane", poll[p].sock, poll[p].target,
                                    None, ok)))
                        ELSE log
              /\ Goto(p, IF hit THEN "wf_return" ELSE "wf_test")
    /\ UNCHANGED <<cfg, obs, todo, runs, sessions, host, captureMs, out>>

\* lines 100 and 107: the deadline has passed, the call ends with False.
WfTimeout(p) ==
    /\ pc[p] = "wf_test"
    /\ ~PollOpen(poll[p].now, poll[p].deadline)
    /\ poll' = Upd(poll, p, [poll[p] EXCEPT !.result = FALSE])
    /\ Goto(p, "wf_return")
    /\ UNCHANGED <<cfg, obs, log, todo, runs, sessions, host, captureMs, out>>

\* The call returns.  In run_interactive, line 156, its result decides
\* whether the trust prompt is answered; called on its own, the caller ends.
WfReturn(p) ==
    /\ pc[p] = "wf_return"
    /\ IF poll[p].caller = "run_interactive"
       THEN /\ obs' = Upd(obs, p, [obs[p] EXCEPT
                          !.trust = IF poll[p].result THEN "yes" ELSE "no"])
            /\ poll' = Upd(poll, p, NoPoll)
            /\ Goto(p, IF poll[p].result THEN "ri_trust_enter" ELSE "ri_prompt")
       ELSE /\ UNCHANGED <<obs, poll>>
            /\ Finish(p, 0, "none")
    /\ UNCHANGED <<cfg, log, todo, runs, sessions, host, captureMs, out>>

(***************************************************************************)
(* run_interactive after the launch, lines 155-178.                        *)
(***************************************************************************)
\* A mutant of RiTrustEnter: the Enter is sent by check_call.
RiTrustEnter_checked(p) ==
    /\ SendChecked(p, "ri_trust_enter", "send-keys-Enter", None, "ri_trust_sleep")
    /\ UNCHANGED <<cfg, obs, poll, todo, runs, sessions, host, captureMs, out>>

\* line 157: the trust prompt is answered by subprocess.run(check=False).
RiTrustEnter(p) ==
    /\ pc[p] = "ri_trust_enter"
    /\ \E serves \in Serving :
          Logged(p, Op("send-keys-Enter", SocketPath(cfg[p]), Target(cfg[p]),
                       None, Reaches(p, serves)))
    /\ Goto(p, "ri_trust_sleep")
    /\ UNCHANGED <<cfg, obs, poll, todo, runs, sessions, host, captureMs, out>>

\* line 158: time.sleep(1).
RiTrustSleep(p) ==
    /\ pc[p] = "ri_trust_sleep"
    /\ Logged(p, Op("sleep", None, None, TRUST_SETTLE_MS, TRUE))
    /\ Goto(p, "ri_prompt")
    /\ UNCHANGED <<cfg, obs, poll, todo, runs, sessions, host, captureMs, out>>

\* lines 160-161: the lines to type are taken from the prompt.
RiPrompt(p) ==
    /\ pc[p] = "ri_prompt"
    /\ todo' = Upd(todo, p, PromptLines(cfg[p].prompt))
    /\ Goto(p, "ri_line")
    /\ UNCHANGED <<cfg, obs, log, poll, runs, sessions, host, captureMs, out>>

\* line 162: the next line is typed, literally; line 161: no line is left.
RiLine(p) ==
    /\ pc[p] = "ri_line"
    /\ IF todo[p] = <<>>
       THEN /\ Goto(p, "ri_wait")
            /\ UNCHANGED log
       ELSE SendChecked(p, "ri_line", "send-keys-l", Head(todo[p]), "ri_line_enter")
    /\ UNCHANGED <<cfg, obs, poll, todo, runs, sessions, host, captureMs, out>>

\* line 163: the line is submitted.
RiLineEnter(p) ==
    /\ SendChecked(p, "ri_line_enter", "send-keys-Enter", None, "ri_line_sleep")
    /\ UNCHANGED <<cfg, obs, poll, todo, runs, sessions, host, captureMs, out>>

\* line 164: time.sleep(delay / 1000.0), which raises ValueError on a
\* negative argument; then the loop goes to the next line.
RiLineSleep(p) ==
    /\ pc[p] = "ri_line_sleep"
    /\ IF cfg[p].interactive_send_delay_ms < 0
       THEN /\ Finish(p, EXIT_UNCAUGHT, "ValueError")
            /\ UNCHANGED <<log, todo>>
       ELSE /\ Logged(p, Op("sleep", None, None, cfg[p].interactive_send_delay_ms, TRUE))
            /\ todo' = Upd(todo, p, Tail(todo[p]))
            /\ Goto(p, "ri_line")
    /\ UNCHANGED <<cfg, obs, poll, runs, sessions, host, captureMs, out>>

\* lines 166-171 and 178: the hints are printed; with a wait configured the
\* run sleeps it, without one it returns 0.
RiWait(p) ==
    /\ pc[p] = "ri_wait"
    /\ IF cfg[p].interactive_wait_s > 0
       THEN /\ Logged(p, Op("sleep", None, None, 1000 * cfg[p].interactive_wait_s, TRUE))
            /\ Goto(p, "ri_snapshot")
       ELSE /\ UNCHANGED log
            /\ Finish(p, 0, "none")
    /\ UNCHANGED <<cfg, obs, poll, todo, runs, sessions, host, captureMs, out>>

\* A mutant of RiSnapshot: the CalledProcessError of the capture is not caught.
RiSnapshot_uncaught(p) ==
    /\ pc[p] = "ri_snapshot"
    /\ \E serves \in Serving :
          /\ Logged(p, Op("capture-pane", SocketPath(cfg[p]), Target(cfg[p]),
                          None, Reaches(p, serves)))
          /\ IF Reaches(p, serves) THEN Finish(p, 0, "none")
             ELSE Finish(p, EXIT_UNCAUGHT, "CalledProcessError")
    /\ UNCHANGED <<cfg, obs, poll, todo, runs, sessions, host, captureMs, out>>

\* lines 172-178: one capture, a CalledProcessError of which is caught, and
\* the run returns 0.
RiSnapshot(p) ==
    /\ pc[p] = "ri_snapshot"
    /\ \E serves \in Serving :
          Logged(p, Op("capture-pane", SocketPath(cfg[p]), Target(cfg[p]),
                       None, Reaches(p, serves)))
    /\ Finish(p, 0, "none")
    /\ UNCHANGED <<cfg, obs, poll, todo, runs, sessions, host, captureMs, out>>

\* One step of invocation p.
Step(p) ==
    \/ MainCheck(p)
    \/ MainDispatch(p)
    \/ RunHeadless(p)
    \/ RiPlatform(p)
    \/ RiMkdir(p)
    \/ RiKill(p)
    \/ RiNew(p)
    \/ RiLaunch(p)
    \/ RiLaunchEnter(p)
    \/ WfBegin(p)
    \/ WfCapture(p)
    \/ WfTimeout(p)
    \/ WfReturn(p)
    \/ RiTrustEnter(p)
    \/ RiTrustSleep(p)
    \/ RiPrompt(p)
    \/ RiLine(p)
    \/ RiLineEnter(p)
    \/ RiLineSleep(p)
    \/ RiWait(p)
    \/ RiSnapshot(p)

(***************************************************************************)
(* Inputs.                                                                 *)
(***************************************************************************)
\* The longest prompt of the exhaustive prompt set.
MaxPromptLen == 3
\* The largest timeout_s tmux_wait_for is called with on its own.
MaxTimeoutS == 3
\* How many times in sequence the program is invoked.
MaxRuns == 2

\* The characters prompts are made of: a slash, a letter, a blank, line breaks.
PromptChars == {"/", "a", " ", "\n", "\r"}

\* Every prompt of at most MaxPromptLen characters, and no prompt at all.
AllPrompts ==
    {None} \cup UNION {[1..n -> PromptChars] : n \in 0..MaxPromptLen}

\* "/init\ndo thing"
P_INIT_DO ==
    <<"/", "i", "n", "i", "t", "\n", "d", "o", " ", "t", "h", "i", "n", "g">>
\* "do thing"
P_DO ==
    <<"d", "o", " ", "t", "h", "i", "n", "g">>
\* " \t/x": a slash command behind leading whitespace
P_INDENT ==
    <<" ", "\t", "/", "x">>
\* "a\n\n \n/b\r\nc'd": three lines to type, two blank ones between them
P_MIXED ==
    <<"a", "\n", "\n", " ", "\n", "/", "b", "\r", "\n", "c", "'", "d">>

\* The prompts the whole program is run with.
RunPrompts == {None, <<>>, P_INIT_DO, P_DO, P_INDENT, P_MIXED}

\* An invocation with every option given; the pass-through arguments come
\* after a "--".
FullArgs ==
    [DefaultArgs EXCEPT
        !.permission_mode = <<"p", "l", "a", "n">>,
        !.allowed_tools = <<"B", "a", "s", "h">>,
        !.output_format = STR_JSON,
        !.json_schema = <<"{", "}">>,
        !.append_system_prompt = <<"b", "e", " ", "b", "r", "i", "e", "f">>,
        !.system_prompt = <<"i", "t", "'", "s">>,
        !.continue_latest = TRUE,
        !.resume = <<"r", "1">>,
        !.claude_bin = <<"/", "o", "p", "t", "/", "c", "l", "a", "u", "d", "e">>,
        !.cwd = <<"/", "m", "y", " ", "d", "i", "r">>,
        !.tmux_socket_dir = <<"/", "s">>,
        !.interactive_send_delay_ms = 0,
        !.extra = << <<"-", "-">>, <<"-", "-", "v">> >>]

\* An invocation with a negative per-line delay.
NegativeDelayArgs == [DefaultArgs EXCEPT !.interactive_send_delay_ms = -1]

\* The invocations of the whole program.
RunArgs ==
    { [base EXCEPT !.mode = m, !.prompt = pr, !.interactive_wait_s = w] :
        base \in {DefaultArgs, FullArgs, NegativeDelayArgs},
        m \in {"auto", "headless", "interactive"},
        pr \in RunPrompts, w \in {0, 2} }

\* The executables the invocations name.
Bins == {DefaultArgs.claude_bin, FullArgs.claude_bin}

\* A machine with everything: the executables on disk and on the search
\* path, tmux and script.  Its tmux servers may fail to serve a request.
FullHost ==
    [os_name |-> "posix", files |-> Bins,
     onpath |-> Bins \cup {STR_TMUX, STR_SCRIPT_NAME}, flaky |-> TRUE]

\* The same machine with tmux servers that serve every request.
ReliableHost == [FullHost EXCEPT !.flaky = FALSE]

\* The machines the program is run on: POSIX or Windows; the executable on
\* disk only, on the search path only (and no script), or nowhere; or no tmux.
Hosts ==
    { [os_name |-> os, files |-> fo[1], onpath |-> fo[2], flaky |-> TRUE] :
        os \in {"posix", "nt"},
        fo \in { <<Bins, {STR_TMUX, STR_SCRIPT_NAME}>>,
                 <<{}, Bins \cup {STR_TMUX}>>,
                 <<{}, {STR_TMUX, STR_SCRIPT_NAME}>>,
                 <<Bins, Bins \cup {STR_SCRIPT_NAME}>> } }

\* The invocations whose mode selection is checked: every mode, every prompt.
ModeArgs ==
    { [DefaultArgs EXCEPT !.mode = m, !.prompt = pr] :
        m \in {"auto", "headless", "interactive"}, pr \in AllPrompts }

\* The values an optional text option is given.
OptionValues == {None, <<>>, <<"x">>}

\* The configurations build_cmd is applied to.
BuildArgs ==
    { [DefaultArgs EXCEPT
          !.permission_mode = pm, !.allowed_tools = at, !.output_format = fmt,
          !.json_schema = js, !.append_system_prompt = asp, !.system_prompt = sp,
          !.continue_latest = cont, !.resume = res, !.prompt = pr, !.extra = ex] :
        pm \in OptionValues \cup {OPT_RESUME},
        at \in {None, <<"x">>},
        fmt \in {None, STR_JSON},
        js \in {None, <<"x">>},
        asp \in {None, <<"x">>},
        sp \in OptionValues,
        cont \in BOOLEAN,
        res \in OptionValues \cup {<<"y">>},
        pr \in {None, <<>>, STR_SUMMARIZE},
        ex \in { <<>>, << <<"x">> >>, <<OPT_RESUME, <<"x">> >>,
                 <<OPT_CONTINUE, OPT_P>> } }

\* Two invocations at once, on a machine whose tmux servers serve every
\* request: a with the defaults, b in either mode, on the same or another
\* socket, under the same name, another name, or a name that begins with
\* a's; their sessions are both live beforehand, or neither is.
PairArgsA ==
    {[DefaultArgs EXCEPT !.mode = "interactive", !.prompt = P_INDENT,
                         !.interactive_wait_s = 1]}

PairArgsB ==
    { [DefaultArgs EXCEPT !.mode = m, !.prompt = P_INDENT,
                          !.tmux_session = sn, !.tmux_socket_name = so] :
        m \in {"interactive", "headless"},
        sn \in {<<"c", "c">>, <<"d", "d">>, <<"c", "c", "d">>},
        so \in {STR_SOCK_NAME, <<"b", ".", "s", "o", "c", "k">>} }

\* The needles tmux_wait_for is called with on its own.
PollNeedles == {<<"k">>, <<"o", "k">>}

(***************************************************************************)
(* Specifications.                                                         *)
(***************************************************************************)
\* No pure function has been applied.
NoOutput == [applied |-> FALSE]

\* The state in which the invocations have the given arguments and are at
\* the given statements, before anything ran.
Start(args, at) ==
    /\ cfg = args
    /\ pc = at
    /\ rc = [p \in Procs |-> RUNNING]
    /\ exc = [p \in Procs |-> "none"]
    /\ obs = [p \in Procs |-> NoObs]
    /\ log = [p \in Procs |-> <<>>]
    /\ todo = [p \in Procs |-> <<>>]
    /\ runs = [p \in Procs |-> IF at[p] = "off" THEN 0 ELSE 1]
    /\ out = NoOutput

\* The program is invoked again, with the same arguments, after it ended.
Reinvoke(p) ==
    /\ pc[p] = "done"
    /\ runs[p] < MaxRuns
    /\ pc' = Upd(pc, p, "main")
    /\ rc' = Upd(rc, p, RUNNING)
    /\ exc' = Upd(exc, p, "none")
    /\ obs' = Upd(obs, p, NoObs)
    /\ log' = Upd(log, p, <<>>)
    /\ poll' = Upd(poll, p, NoPoll)
    /\ todo' = Upd(todo, p, <<>>)
    /\ runs' = Upd(runs, p, runs[p] + 1)
    /\ UNCHANGED <<cfg, sessions, host, captureMs, out>>

\* One invocation (a), and invocations after it in sequence; its session
\* may or may not be live on the server beforehand.
Init ==
    /\ \E args \in RunArgs :
          /\ Start([p \in Procs |-> IF p = "a" THEN args ELSE DefaultArgs],
                   [p \in Procs |-> IF p = "a" THEN "main" ELSE "off"])
          /\ \E pre \in SUBSET {SessionKey(args)} : sessions = SetToBag(pre)
    /\ poll = [p \in Procs |-> NoPoll]
    /\ host \in Hosts
    /\ captureMs = {0}

Next ==
    \/ \E p \in Procs : Step(p)
    \/ \E p \in Procs : Reinvoke(p)

Spec == Init /\ [][Next]_vars

\* Two invocations interleaved.
InitPair ==
    /\ \E a \in PairArgsA, b \in PairArgsB :
          /\ Start([p \in Procs |-> IF p = "a" THEN a ELSE b],
                   [p \in Procs |-> "main"])
          /\ \E pre \in {{}, {SessionKey(a), SessionKey(b)}} :
                sessions = SetToBag(pre)
    /\ poll = [p \in Procs |-> NoPoll]
    /\ host = ReliableHost
    /\ captureMs = {0}

NextPair == \E p \in Procs : Step(p)

SpecPair == InitPair /\ [][NextPair]_vars

\* tmux_wait_for called on its own (by a), with any needle and timeout, on
\* a pane that may be gone, captures taking no time, some time or long.
InitPoll ==
    /\ Start([p \in Procs |-> DefaultArgs],
             [p \in Procs |-> IF p = "a" THEN "wf_begin" ELSE "off"])
    /\ \E pre \in SUBSET {SessionKey(DefaultArgs)} : sessions = SetToBag(pre)
    /\ \E n \in PollNeedles, t \in (-1)..MaxTimeoutS :
          poll = [p \in Procs |->
                    IF p = "a"
                    THEN [NoPoll EXCEPT !.active = TRUE, !.caller = "harness",
                                        !.sock = SocketPath(DefaultArgs),
                                        !.target = Target(DefaultArgs),
                                        !.needle = n, !.timeout_s = t]
                    ELSE NoPoll]
    /\ host = FullHost
    /\ captureMs = {0, 300, 1200}

NextPoll ==
    \E p \in Procs :
        \/ WfBegin(p)
        \/ WfCapture(p)
        \/ WfTimeout(p)
        \/ WfReturn(p)

SpecPoll == InitPoll /\ [][NextPoll]_vars

\* main up to its dispatch, for every mode and prompt.
InitMode ==
    /\ \E args \in ModeArgs :
          Start([p \in Procs |-> IF p = "a" THEN args ELSE DefaultArgs],
                [p \in Procs |-> IF p = "a" THEN "main" ELSE "off"])
    /\ sessions = EmptyBag
    /\ poll = [p \in Procs |-> NoPoll]
    /\ host \in Hosts
    /\ captureMs = {0}

NextMode ==
    \E p \in Procs :
        \/ MainCheck(p)
        \/ MainDispatch(p)

SpecMode == InitMode /\ [][NextMode]_vars

\* build_cmd, and run_interactive's launch vector, applied to a configuration.
Apply ==
    /\ ~out.applied
    /\ out' = [applied |-> TRUE,
               cmd |-> build_cmd(cfg["a"]),
               base |-> interactive_base(cfg["a"])]
    /\ UNCHANGED <<cfg, pc, rc, exc, obs, log, poll, todo, runs, sessions, host, captureMs>>

InitBuild ==
    /\ \E args \in BuildArgs :
          Start([p \in Procs |-> IF p = "a" THEN args ELSE DefaultArgs],
                [p \in Procs |-> "off"])
    /\ sessions = EmptyBag
    /\ poll = [p \in Procs |-> NoPoll]
    /\ host = FullHost
    /\ captureMs = {0}

NextBuild == Apply

SpecBuild == InitBuild /\ [][NextBuild]_vars

(***************************************************************************)
(* Properties.                                                             *)
(***************************************************************************)
Elems(v) == {v[i] : i \in 1..Len(v)}

\* v holds a immediately followed by b.
HasPair(v, a, b) == \E i \in 1..(Len(v) - 1) : v[i] = a /\ v[i + 1] = b

\* The executable of invocation p is on the machine.
BinFound(p) == cfg[p].claude_bin \in host.files \cup host.onpath

\* Some line of the prompt begins, after leading whitespace, with a slash:
\* a slash with nothing but whitespace between it and the line break before
\* it (or the beginning of the prompt).
HasSlashLine(prompt) ==
    /\ prompt # None
    /\ \E i \in 1..Len(prompt) :
          /\ prompt[i] = "/"
          /\ \A j \in 1..(i - 1) :
                ~IsSpace(prompt[j]) =>
                    \E k \in (j + 1)..(i - 1) : IsLineBreak(prompt[k])

\* The mode the claims expect main to run in.
ExpectedMode(args) ==
    IF args.mode = "interactive" \/ (args.mode = "auto" /\ HasSlashLine(args.prompt))
    THEN "interactive" ELSE "headless"

\* C1: with mode auto, main runs interactively exactly when some line of the
\* prompt begins, after leading whitespace, with a slash (never for an empty
\* or absent prompt); an explicit headless or interactive is taken as given,
\* whatever the prompt.
C1_ModeSelection ==
    \A p \in Procs :
        /\ pc[p] = "ri_platform" => ExpectedMode(cfg[p]) = "interactive"
        /\ pc[p] = "rh_run" => ExpectedMode(cfg[p]) = "headless"

\* C1 witness: auto mode went interactive on a prompt whose slash is not its
\* first character.
C1_Witness ==
    /\ pc["a"] = "ri_platform"
    /\ cfg["a"].mode = "auto"
    /\ Len(cfg["a"].prompt) = MaxPromptLen
    /\ cfg["a"].prompt[1] # "/"

\* C2: when the executable is neither on disk nor on the search path, main
\* returns 2 at once: no child process, no directory, no tmux operation.
C2_MissingExecutable ==
    \A p \in Procs :
        (pc[p] \notin {"off", "main"} /\ ~BinFound(p)) =>
            /\ pc[p] = "done"
            /\ rc[p] = EXIT_PRECONDITION
            /\ exc[p] = "none"
            /\ log[p] = <<>>

\* C2 witness: an interactive invocation ended so, on a machine with tmux.
C2_Witness ==
    /\ pc["a"] = "done"
    /\ ~BinFound("a")
    /\ cfg["a"].mode = "interactive"
    /\ host.os_name = "posix"
    /\ rc["a"] = 2

\* C3: an interactive run on Windows, or without tmux on the search path,
\* returns 2 before any side effect: no directory is made, no tmux operation
\* issued.
C3_InteractivePreconditions ==
    \A p \in Procs :
        ( /\ pc[p] \notin {"off", "main", "dispatch", "ri_platform"}
          /\ BinFound(p)
          /\ ExpectedMode(cfg[p]) = "interactive"
          /\ (host.os_name # "posix" \/ STR_TMUX \notin host.onpath) ) =>
            /\ pc[p] = "done"
            /\ rc[p] = EXIT_PRECONDITION
            /\ exc[p] = "none"
            /\ log[p] = <<>>

\* C3 witness: an interactive run ended so on a POSIX machine without tmux.
C3_Witness ==
    /\ pc["a"] = "done"
    /\ BinFound("a")
    /\ ExpectedMode(cfg["a"]) = "interactive"
    /\ host.os_name = "posix"
    /\ STR_TMUX \notin host.onpath
    /\ rc["a"] = 2

\* The order of the flags, by the claim.
FlagOrder ==
    <<OPT_PERMISSION_MODE, OPT_ALLOWED_TOOLS, OPT_OUTPUT_FORMAT, OPT_JSON_SCHEMA,
      OPT_APPEND_SYSTEM_PROMPT, OPT_SYSTEM_PROMPT, OPT_CONTINUE, OPT_RESUME, OPT_P>>

RECURSIVE InFlagOrder(_, _, _)
\* body, from position i on, is a run of flags of FlagOrder of rank at least
\* r, in rising rank, each but --continue followed by one value.
InFlagOrder(body, i, r) ==
    \/ i > Len(body)
    \/ \E k \in r..Len(FlagOrder) :
          /\ body[i] = FlagOrder[k]
          /\ IF FlagOrder[k] = OPT_CONTINUE
             THEN InFlagOrder(body, i + 1, k + 1)
             ELSE i + 1 <= Len(body) /\ InFlagOrder(body, i + 2, k + 1)

\* C4: build_cmd's vector is the executable, then the flags in the order
\* permission-mode, tool-allow-list, output-format, schema,
\* system-prompt-append, system-prompt-replace, continuation, resume, prompt,
\* then the pass-through arguments; prompt "summarize" with output format
\* "json" alone gives <executable> --output-format json -p summarize.
C4_FlagOrder ==
    out.applied =>
        LET args == cfg["a"]
            n == Len(out.cmd) - Len(args.extra)
        IN  /\ n >= 1
            /\ out.cmd[1] = args.claude_bin
            /\ SubSeq(out.cmd, n + 1, Len(out.cmd)) = args.extra
            /\ InFlagOrder(SubSeq(out.cmd, 2, n), 1, 1)
            /\ args = [DefaultArgs EXCEPT !.prompt = STR_SUMMARIZE,
                                          !.output_format = STR_JSON]
                  => out.cmd = <<args.claude_bin, OPT_OUTPUT_FORMAT, STR_JSON,
                                 OPT_P, STR_SUMMARIZE>>

\* C4 witness: a vector built with continuation, resume, a prompt and
\* pass-through arguments, among others.
C4_Witness ==
    /\ out.applied
    /\ cfg["a"].continue_latest
    /\ Truthy(cfg["a"].resume)
    /\ Truthy(cfg["a"].permission_mode)
    /\ Truthy(cfg["a"].system_prompt)
    /\ Truthy(cfg["a"].prompt)
    /\ cfg["a"].extra # <<>>

\* The field of each flag is present: the prompt is not None, continuation
\* is set, any other option is neither None nor empty.
FlagPresent(args, flag) ==
    CASE flag = OPT_PERMISSION_MODE -> Truthy(args.permission_mode)
      [] flag = OPT_ALLOWED_TOOLS -> Truthy(args.allowed_tools)
      [] flag = OPT_OUTPUT_FORMAT -> Truthy(args.output_format)
      [] flag = OPT_JSON_SCHEMA -> Truthy(args.json_schema)
      [] flag = OPT_APPEND_SYSTEM_PROMPT -> Truthy(args.append_system_prompt)
      [] flag = OPT_SYSTEM_PROMPT -> Truthy(args.system_prompt)
      [] flag = OPT_CONTINUE -> args.continue_latest
      [] flag = OPT_RESUME -> Truthy(args.resume)
      [] flag = OPT_P -> args.prompt # None

\* What C5 says of a vector: a flag is in it only when its field is
\* present, and --resume X is in it exactly when resume is X, not empty.
OnlyPresentFlags(args, cmd) ==
    /\ \A k \in 1..Len(FlagOrder) :
          FlagOrder[k] \in Elems(cmd) => FlagPresent(args, FlagOrder[k])
    /\ \A X \in Elems(cmd) \cup {args.resume} :
          HasPair(cmd, OPT_RESUME, X) <=> (args.resume = X /\ Truthy(X))

\* C5 as claimed: for every configuration, any pass-through arguments
\* included, a flag is in build_cmd's vector only when its field is present
\* and --resume X is in it exactly when resume is X, not empty.
C5_AnyConfiguration ==
    out.applied => OnlyPresentFlags(cfg["a"], out.cmd)

\* Neither the executable, nor an option's value, nor a pass-through
\* argument is one of the builder's flags.
NoFlagValues(args) ==
    Elems(FlagOrder) \cap
        ( { args.claude_bin, args.permission_mode, args.allowed_tools,
            args.output_format, args.json_schema, args.append_system_prompt,
            args.system_prompt, args.resume, args.prompt }
          \cup Elems(args.extra) ) = {}

\* C5, amended: when neither the executable, nor an option's value, nor a
\* pass-through argument is itself one of the builder's flags, a flag is in
\* build_cmd's vector only when its field is present, and --resume X is in
\* it exactly when resume is X, not empty.
C5_NoFlagValues ==
    (out.applied /\ NoFlagValues(cfg["a"])) => OnlyPresentFlags(cfg["a"], out.cmd)

\* C5 witness: such a vector, built with a resume token, an empty prompt,
\* an empty system prompt and a pass-through argument.
C5_Witness ==
    /\ out.applied
    /\ NoFlagValues(cfg["a"])
    /\ Truthy(cfg["a"].resume)
    /\ cfg["a"].prompt = <<>>
    /\ cfg["a"].system_prompt = <<>>
    /\ cfg["a"].extra # <<>>
    /\ HasPair(out.cmd, OPT_RESUME, cfg["a"].resume)

\* An interactive run of p got past the checks of the executable, the
\* platform and tmux.
InteractiveStarted(p) ==
    /\ pc[p] \notin {"off", "main", "dispatch", "ri_platform"}
    /\ BinFound(p)
    /\ ExpectedMode(cfg[p]) = "interactive"
    /\ host.os_name = "posix"
    /\ STR_TMUX \in host.onpath

SomeEntry(l, Test(_)) == \E i \in 1..Len(l) : Test(l[i])

SetupSucceeded(l) ==
    /\ SomeEntry(l, LAMBDA e : e.op = "new-session" /\ e.ok)
    /\ \A i \in 1..Len(l) :
          /\ l[i].op \in {"mkdir", "new-session", "send-keys-l"} => l[i].ok
          /\ (i > 1 /\ l[i].op = "send-keys-Enter" /\ l[i - 1].op = "send-keys-l")
                => l[i].ok

\* What C9 says of a run that ended.
EndsZeroSessionLive(p) ==
    /\ rc[p] = 0
    /\ exc[p] = "none"
    /\ \A i, j \in 1..Len(log[p]) :
          (log[p][i].op = "new-session" /\ log[p][j].op = "kill-session") => j < i
    /\ Live(sessions, SessionKey(cfg[p])) = 1

\* C9: an interactive run whose setup succeeded returns 0, and as it issues
\* no kill-session after new-session, its session is live when it returns.
C9_ReturnsZero ==
    \A p \in Procs :
        (pc[p] = "done" /\ InteractiveStarted(p) /\ SetupSucceeded(log[p]))
            => EndsZeroSessionLive(p)

\* The same for the runs whose delay between the lines is not negative.
ReturnsZeroUnlessNegativeDelay ==
    \A p \in Procs :
        ( /\ pc[p] = "done" /\ InteractiveStarted(p) /\ SetupSucceeded(log[p])
          /\ cfg[p].interactive_send_delay_ms >= 0 )
            => EndsZeroSessionLive(p)

\* C10: tmux_wait_for returns True at the first capture that holds the
\* needle, a capture begun before the deadline, without sleeping after it;
\* it returns False only past the deadline, no capture having held the
\* needle; a capture that fails counts as one without the needle and the
\* loop goes on.
C10_PollResult ==
    LET q == poll["a"]
        returned == pc["a"] \in {"wf_return", "done"}
    IN  /\ q.hits >= 1 =>
              /\ returned
              /\ q.result = TRUE
              /\ q.hits = 1
              /\ Contains(q.last, q.needle)
              /\ q.nsleep = q.ncap - 1
              /\ q.lastStart < q.deadline
        /\ returned =>
              /\ q.result \in BOOLEAN
              /\ q.result = TRUE => q.hits = 1
              /\ q.result = FALSE =>
                    /\ q.now >= q.deadline
                    /\ q.hits = 0
                    /\ q.nsleep = q.ncap
        /\ q.last = CAPTURE_FAILED =>
              /\ exc["a"] = "none"
              /\ q.hits = 0
              /\ q.nsleep = q.ncap
              /\ pc["a"] = "wf_test" \/ (returned /\ q.result = FALSE)

\* C10 witness: True at the third capture, begun before the deadline and
\* ended after it.
C10_Witness ==
    /\ pc["a"] = "wf_return"
    /\ poll["a"].result = TRUE
    /\ poll["a"].ncap = 3
    /\ poll["a"].nsleep = 2
    /\ poll["a"].lastStart < poll["a"].deadline
    /\ poll["a"].now > poll["a"].deadline
    /\ Len(poll["a"].last) > Len(poll["a"].needle)

\* The lines of a prompt that are typed: those that are not blank, in order.
LinesToType(prompt) ==
    IF Truthy(prompt) THEN SelectSeq(SplitLines(prompt), NonBlank) ELSE <<>>

\* Where the prompt's lines begin in the log of a run that got to them: past
\* mkdir, kill-session, new-session, the launch line, its Enter and the first
\* capture of the trust poll, and past the Enter and the pause that answer
\* the trust prompt when there are any.
PromptStart(l) ==
    IF Len(l) >= 7 /\ l[7].op = "send-keys-Enter" THEN 9 ELSE 7

\* How many entries of a log have a given operation.
CountOps(l, op) == Cardinality({i \in 1..Len(l) : l[i].op = op})

\* What C11 says of the log of a run: for each line to type, in order, its
\* text typed unchanged, its Enter, the delay; nothing else typed.
PacedInput(p) ==
    LET l == log[p]
        s == PromptStart(l)
        L == LinesToType(cfg[p].prompt)
        N == Len(L)
    IN  /\ Len(l) >= s + 3 * N - 1
        /\ \A k \in 1..N :
              LET i == s + 3 * (k - 1)
              IN  /\ l[i] = Op("send-keys-l", SocketPath(cfg[p]), Target(cfg[p]),
                               L[k], TRUE)
                  /\ l[i + 1] = Op("send-keys-Enter", SocketPath(cfg[p]),
                                   Target(cfg[p]), None, TRUE)
                  /\ l[i + 2] = Op("sleep", None, None,
                                   cfg[p].interactive_send_delay_ms, TRUE)
        /\ CountOps(l, "send-keys-l") = N + 1
        /\ CountOps(l, "send-keys-Enter") = N + 1 + (IF s = 9 THEN 1 ELSE 0)

\* C11: an interactive run with a prompt of N lines that are not blank
\* types exactly those N lines, in order and unchanged, each followed by its
\* Enter and then by the per-line delay, before the next line is typed.
C11_PacedInput ==
    \A p \in Procs :
        (pc[p] = "done" /\ InteractiveStarted(p) /\ SetupSucceeded(log[p]))
            => PacedInput(p)

\* The same for the runs whose delay between the lines is not negative.
PacedInputUnlessNegativeDelay ==
    \A p \in Procs :
        ( /\ pc[p] = "done" /\ InteractiveStarted(p) /\ SetupSucceeded(log[p])
          /\ cfg[p].interactive_send_delay_ms >= 0 )
            => PacedInput(p)

\* A run with three lines to type among blank ones ended so.
PacedInputReached ==
    /\ pc["a"] = "done"
    /\ rc["a"] = 0
    /\ cfg["a"].prompt = P_MIXED
    /\ PacedInput("a")
    /\ PromptStart(log["a"]) = 9

\* Entry i of a log is a failure of an operation the run checks: the
\* directory, new-session, a typed line or the Enter that submits it.
CheckedFailure(l, i) ==
    /\ \/ l[i].op \in {"mkdir", "new-session", "send-keys-l"}
       \/ i > 1 /\ l[i].op = "send-keys-Enter" /\ l[i - 1].op = "send-keys-l"
    /\ ~l[i].ok

\* C12: when the directory, new-session or a checked keystroke injection
\* (the launch line, its Enter) fails, the interactive run ends at once with
\* a non-zero exit: that failure is its last operation, nothing is cleaned
\* up, and a session the run had made stays live.
C12_FatalSetupErrors ==
    \A p \in Procs : \A i \in 1..Len(log[p]) :
        CheckedFailure(log[p], i) =>
            /\ i = Len(log[p])
            /\ pc[p] = "done"
            /\ rc[p] # 0
            /\ exc[p] # "none"
            /\ \A j \in 1..Len(log[p]) :
                  (log[p][j].op = "new-session" /\ log[p][j].ok) =>
                      /\ Live(sessions, SessionKey(cfg[p])) = 1
                      /\ \A k \in (j + 1)..Len(log[p]) :
                            log[p][k].op # "kill-session"

\* C12 witness: the Enter that submits the launch line failed; the run ended
\* there with 1 and its session is live.
C12_Witness ==
    /\ pc["a"] = "done"
    /\ Len(log["a"]) = 5
    /\ log["a"][3].op = "new-session" /\ log["a"][3].ok
    /\ log["a"][4].op = "send-keys-l" /\ log["a"][4].ok
    /\ log["a"][5].op = "send-keys-Enter" /\ ~log["a"][5].ok
    /\ rc["a"] = 1
    /\ Live(sessions, SessionKey(cfg["a"])) = 1

\* The statements of run_interactive that deal with the trust prompt.
TrustPhase == {"wf_begin", "wf_test", "wf_return", "ri_trust_enter", "ri_trust_sleep"}

\* The poll for the trust prompt: its needle, its bound of 20 seconds, its
\* result.
TrustPollBounded(p) ==
    (poll[p].active /\ poll[p].caller = "run_interactive") =>
        /\ poll[p].needle = TRUST_NEEDLE
        /\ poll[p].timeout_s = 20
        /\ poll[p].ncap > 0 => poll[p].lastStart < 20 * 1000
        /\ pc[p] = "wf_return" =>
              /\ poll[p].result = (poll[p].hits > 0)
              /\ ~poll[p].result => poll[p].now >= 20 * 1000

\* What the log holds after the poll's first capture (its entry 6): when the
\* poll found the prompt, one Enter then a pause of a second, and no second
\* Enter; when it did not, no Enter.
TrustAnswered(p) ==
    LET l == log[p]
    IN  /\ obs[p].trust = "?" => Len(l) <= 6
        /\ obs[p].trust = "yes" =>
              /\ Len(l) = 6 <=> pc[p] = "ri_trust_enter"
              /\ Len(l) = 7 <=> pc[p] = "ri_trust_sleep"
              /\ Len(l) >= 7 => l[7].op = "send-keys-Enter"
              /\ Len(l) >= 8 => l[8] = Op("sleep", None, None, 1000, TRUE)
              /\ Len(l) >= 9 => l[9].op # "send-keys-Enter"
        /\ obs[p].trust = "no" =>
              /\ pc[p] \notin {"ri_trust_enter", "ri_trust_sleep"}
              /\ Len(l) >= 7 => l[7].op # "send-keys-Enter"

\* C13: after the launch line's Enter the pane is polled for the trust
\* prompt for at most 20 seconds; found, one Enter is sent, its failure
\* ignored, then a pause of one second; not found, no key is sent.  Neither
\* ends the run: it goes on to the prompt's lines.
C13_TrustPrompt ==
    /\ [](\A p \in Procs : TrustPollBounded(p) /\ TrustAnswered(p))
    /\ [][\A p \in Procs :
            pc[p] \in TrustPhase =>
                /\ pc'[p] \in TrustPhase \cup {"ri_prompt"}
                /\ rc'[p] = RUNNING
                /\ exc'[p] = "none"]_vars

\* C13 witness: the prompt was found, the Enter that answers it failed, and
\* after the pause the first line of the prompt was typed.
C13_Witness ==
    /\ obs["a"].trust = "yes"
    /\ Len(log["a"]) >= 9
    /\ log["a"][6].op = "capture-pane"
    /\ log["a"][7].op = "send-keys-Enter" /\ ~log["a"][7].ok
    /\ log["a"][8].op = "sleep"
    /\ log["a"][9].op = "send-keys-l" /\ log["a"][9].ok

RECURSIVE WithoutFrom(_, _, _)
\* v from position i on, without the elements at the positions of S.
WithoutFrom(v, i, S) ==
    IF i > Len(v) THEN <<>>
    ELSE (IF i \in S THEN <<>> ELSE <<v[i]>>) \o WithoutFrom(v, i + 1, S)

\* The positions among the first n of v where flag is followed by value; 0
\* stands for no position, when the flag's field is not present.
EntryAt(v, n, flag, value, present) ==
    IF present
    THEN {i \in 1..(n - 1) : v[i] = flag /\ v[i + 1] = value}
    ELSE {0}

\* The two positions of an entry at i, none for 0.
EntryPositions(i) == IF i = 0 THEN {} ELSE {i, i + 1}

\* The flags of the launch line, in order.
LaunchFlagOrder ==
    <<OPT_PERMISSION_MODE, OPT_ALLOWED_TOOLS, OPT_APPEND_SYSTEM_PROMPT,
      OPT_SYSTEM_PROMPT, OPT_CONTINUE, OPT_RESUME>>

RECURSIVE InLaunchOrder(_, _, _)
\* body, from position i on, is a run of flags of LaunchFlagOrder of rank at
\* least r, in rising rank, each but --continue followed by one value.
InLaunchOrder(body, i, r) ==
    \/ i > Len(body)
    \/ \E k \in r..Len(LaunchFlagOrder) :
          /\ body[i] = LaunchFlagOrder[k]
          /\ IF LaunchFlagOrder[k] = OPT_CONTINUE
             THEN InLaunchOrder(body, i + 1, k + 1)
             ELSE i + 1 <= Len(body) /\ InLaunchOrder(body, i + 2, k + 1)

\* C14: the vector of the interactive launch line is build_cmd's vector for
\* the same configuration with the entries of the output format, the schema
\* and the prompt taken out and the rest in the same order; before the
\* pass-through arguments it holds no flag but permission-mode,
\* tool-allow-list, system-prompt-append, system-prompt-replace,
\* continuation and resume.
C14_LaunchVector ==
    out.applied =>
        LET args == cfg["a"]
            n == Len(out.cmd) - Len(args.extra)
            m == Len(out.base) - Len(args.extra)
        IN  /\ \E i \in EntryAt(out.cmd, n, OPT_OUTPUT_FORMAT, args.output_format,
                                Truthy(args.output_format)),
                  j \in EntryAt(out.cmd, n, OPT_JSON_SCHEMA, args.json_schema,
                                Truthy(args.json_schema)),
                  k \in EntryAt(out.cmd, n, OPT_P, args.prompt, args.prompt # None) :
                  /\ EntryPositions(i) \cap EntryPositions(j) = {}
                  /\ EntryPositions(i) \cap EntryPositions(k) = {}
                  /\ EntryPositions(j) \cap EntryPositions(k) = {}
                  /\ out.base = WithoutFrom(out.cmd, 1,
                        EntryPositions(i) \cup EntryPositions(j) \cup EntryPositions(k))
            /\ m >= 1
            /\ out.base[1] = args.claude_bin
            /\ SubSeq(out.base, m + 1, Len(out.base)) = args.extra
            /\ InLaunchOrder(SubSeq(out.base, 2, m), 1, 1)

\* C14 witness: a configuration with an output format, a schema, a prompt
\* and pass-through arguments, among others; its launch vector is shorter
\* than build_cmd's by six.
C14_Witness ==
    /\ out.applied
    /\ Truthy(cfg["a"].output_format)
    /\ Truthy(cfg["a"].json_schema)
    /\ cfg["a"].prompt = STR_SUMMARIZE
    /\ cfg["a"].continue_latest
    /\ Truthy(cfg["a"].resume)
    /\ Truthy(cfg["a"].permission_mode)
    /\ cfg["a"].extra = <<OPT_CONTINUE, OPT_P>>
    /\ Len(out.base) = Len(out.cmd) - 6
    /\ OPT_OUTPUT_FORMAT \notin Elems(out.base)

\* The positions of the captures of a log past the trust poll's (entry 6).
FinalCaptures(l) == {i \in 7..Len(l) : l[i].op = "capture-pane"}

\* C15: a final capture is made exactly when the wait is above 0: once,
\* after every line of the prompt was sent and the wait slept, as the run's
\* last operation, and the run returns 0 whether it fails or not; with a
\* wait of 0 a run returns 0 with no capture after the prompt's lines.
C15_FinalSnapshot ==
    \A p \in Procs :
        LET l == log[p]
            after == PromptStart(l) + 3 * Len(LinesToType(cfg[p].prompt))
        IN  /\ \A i \in FinalCaptures(l) :
                  /\ cfg[p].interactive_wait_s > 0
                  /\ PacedInput(p)
                  /\ i = after + 1
                  /\ i = Len(l)
                  /\ l[i - 1] = Op("sleep", None, None,
                                   1000 * cfg[p].interactive_wait_s, TRUE)
                  /\ pc[p] = "done"
                  /\ rc[p] = 0
                  /\ exc[p] = "none"
            /\ ( /\ pc[p] = "done" /\ InteractiveStarted(p)
                 /\ SetupSucceeded(l) /\ PacedInput(p) ) =>
                  /\ rc[p] = 0
                  /\ cfg[p].interactive_wait_s > 0 => FinalCaptures(l) = {after + 1}
                  /\ cfg[p].interactive_wait_s <= 0 =>
                        FinalCaptures(l) = {} /\ Len(l) = after - 1

\* C15 witness: after three lines and a wait of two seconds the final
\* capture failed, and the run returned 0.
C15_Witness ==
    /\ pc["a"] = "done"
    /\ cfg["a"].prompt = P_MIXED
    /\ cfg["a"].interactive_wait_s = 2
    /\ FinalCaptures(log["a"]) # {}
    /\ ~log["a"][Len(log["a"])].ok
    /\ log["a"][Len(log["a"]) - 1].op = "sleep"
    /\ rc["a"] = 0

\* Invocation p made its session.
MadeSession(p) == SomeEntry(log[p], LAMBDA e : e.op = "new-session" /\ e.ok)

\* What C16 says of interactive run p next to another run: no one ends the
\* session it made, and it ends as it does alone on this machine: unless
\* its directory cannot be made, every tmux operation after kill-session
\* succeeds, the prompt's lines are typed in full, and it returns 0.
Undisturbed(p) ==
    /\ MadeSession(p) => Live(sessions, SessionKey(cfg[p])) = 1
    /\ \A i \in 3..Len(log[p]) : log[p][i].ok
    /\ (pc[p] = "done" /\ log[p][1].ok) =>
          /\ rc[p] = 0
          /\ exc[p] = "none"
          /\ PacedInput(p)

\* C16: two interactive runs whose (socket path, session name) pairs
\* differ, interleaved in any way: neither touches the other's session and
\* each ends as it does alone.
C16_Isolation ==
    (/\ SessionKey(cfg["a"]) # SessionKey(cfg["b"])
     /\ \A p \in Procs : cfg[p].mode = "interactive") =>
        \A p \in Procs : Undisturbed(p)

\* The same for two runs on different sockets, or under names neither of
\* which begins with the other.
IsolationUnlessPrefix ==
    (/\ \A p \in Procs : cfg[p].mode = "interactive"
     /\ \/ SocketPath(cfg["a"]) # SocketPath(cfg["b"])
        \/ /\ ~StartsWith(cfg["a"].tmux_session, cfg["b"].tmux_session)
           /\ ~StartsWith(cfg["b"].tmux_session, cfg["a"].tmux_session)) =>
        \A p \in Procs : Undisturbed(p)

\* Two such runs ended, each with its own session live.
IsolationReached ==
    /\ \A p \in Procs : pc[p] = "done" /\ MadeSession(p) /\ rc[p] = 0
    /\ SocketPath(cfg["a"]) = SocketPath(cfg["b"])
    /\ cfg["b"].tmux_session = <<"d", "d">>
    /\ Live(sessions, SessionKey(cfg["a"])) = 1
    /\ Live(sessions, SessionKey(cfg["b"])) = 1

\* The tmux operations of a log, in order.
TmuxLog(l) == SelectSeq(l, LAMBDA e : e.op \in TmuxOps)

\* How an interactive run begins: up to the first capture of the trust poll.
ProtocolHead ==
    <<"kill-session", "new-session", "send-keys-l", "send-keys-Enter", "capture-pane">>

RECURSIVE PairsThenCapture(_, _)
\* t, from position i on, is pairs of a typed line and its Enter, the last
\* one possibly without its Enter yet, or such pairs and then one capture.
PairsThenCapture(t, i) ==
    IF i > Len(t) THEN TRUE
    ELSE IF t[i].op = "send-keys-l"
         THEN i = Len(t)
              \/ (t[i + 1].op = "send-keys-Enter" /\ PairsThenCapture(t, i + 2))
         ELSE t[i].op = "capture-pane" /\ i = Len(t)

\* C17: the tmux operations of an interactive run come in this order: one
\* kill-session, one new-session, the launch line typed, its Enter, the
\* captures of the trust poll, one Enter only if the poll matched, the
\* lines of the prompt each with its Enter, at most one final capture;
\* nothing is typed before new-session succeeded.
C17_ProtocolOrder ==
    \A p \in Procs :
        LET t == TmuxLog(log[p])
        IN  /\ \A i \in 1..Len(t) :
                  /\ i <= 5 => t[i].op = ProtocolHead[i]
                  /\ t[i].sock = SocketPath(cfg[p])
                  /\ t[i].target = IF i <= 2 THEN cfg[p].tmux_session ELSE Target(cfg[p])
            /\ Len(t) >= 3 => t[2].ok /\ t[3].arg = LaunchLine(cfg[p])
            /\ Len(t) >= 6 =>
                  /\ t[6].op = "send-keys-Enter" => obs[p].trust = "yes"
                  /\ PairsThenCapture(t, IF t[6].op = "send-keys-Enter" THEN 7 ELSE 6)
            /\ (poll[p].active /\ poll[p].ncap > 0) => Len(t) = 5
            /\ (pc[p] = "done" /\ rc[p] = 0 /\ InteractiveStarted(p)) => Len(t) >= 5

\* C17 witness: a run with all of it: the trust prompt answered, three
\* lines typed, the final capture.
C17_Witness ==
    /\ pc["a"] = "done"
    /\ rc["a"] = 0
    /\ Len(TmuxLog(log["a"])) = 13
    /\ TmuxLog(log["a"])[6].op = "send-keys-Enter"
    /\ TmuxLog(log["a"])[13].op = "capture-pane"

\* tmux_wait_for on its own, the process that runs it never stopping short
\* of the call's end: each capture returns and each sleep ends.
SpecPollFair == InitPoll /\ [][NextPoll]_vars /\ WF_vars(NextPoll)

\* The most captures a call with a timeout of t seconds makes: t / 0.5,
\* rounded up; none for a timeout that is not positive.
MostCaptures(t) == IF t <= 0 THEN 0 ELSE (1000 * t + 499) \div 500

\* C18: tmux_wait_for ends, whatever the captures give and whatever the
\* timeout; it makes at most timeout / 0.5 captures, rounded up, and with a
\* timeout of 0 or less it returns False without a capture.
C18_PollTerminates ==
    /\ <>(pc["a"] = "done")
    /\ [](poll["a"].ncap <= MostCaptures(poll["a"].timeout_s))
    /\ []((pc["a"] \in {"wf_return", "done"} /\ poll["a"].timeout_s <= 0) =>
              (poll["a"].result = FALSE /\ poll["a"].ncap = 0))

\* C18 witness: a call with the longest timeout made every capture it may
\* and returned False.
C18_Witness ==
    /\ pc["a"] = "done"
    /\ poll["a"].timeout_s = MaxTimeoutS
    /\ poll["a"].ncap = MostCaptures(MaxTimeoutS)
    /\ poll["a"].result = FALSE

\* A log holds a spawn of the program; it holds a tmux operation.
Spawned(l) == SomeEntry(l, LAMBDA e : e.op = "spawn")
UsedTmux(l) == SomeEntry(l, LAMBDA e : e.op \in TmuxOps)

\* " -p": the prompt flag as it stands in a command line.
STR_SPACE_P == <<" ", "-", "p">>

\* A command line holds the flag -p as one of its words.
HasPromptFlag(line) ==
    \/ Contains(line, STR_SPACE_P \o <<" ">>)
    \/ (Len(line) >= 3 /\ SubSeq(line, Len(line) - 2, Len(line)) = STR_SPACE_P)

\* C19: a run for which interactive mode is chosen, by --mode or by the
\* slash heuristic, never spawns the program headlessly: when Windows or a
\* missing tmux stops it, main returns 2.  In every run the prompt goes one
\* way at most: as the -p argument of the spawned command, or typed into the
\* session started by a launch line without -p; never both.
C19_NoFallback ==
    \A p \in Procs :
        /\ ExpectedMode(cfg[p]) = "interactive" =>
              /\ ~Spawned(log[p])
              /\ ( /\ pc[p] = "done" /\ BinFound(p)
                   /\ (host.os_name # "posix" \/ STR_TMUX \notin host.onpath) )
                    => (rc[p] = 2 /\ log[p] = <<>>)
        /\ ExpectedMode(cfg[p]) = "headless" => ~UsedTmux(log[p])
        /\ ~(Spawned(log[p]) /\ UsedTmux(log[p]))
        /\ Spawned(log[p]) =>
              /\ Len(log[p]) = 1
              /\ cfg[p].prompt # None =>
                    \E v \in {build_cmd(cfg[p])} :
                        \/ log[p][1].arg = v /\ HasPair(v, OPT_P, cfg[p].prompt)
                        \/ log[p][1].arg[1] = STR_SCRIPT
                           /\ HasPromptFlag(log[p][1].arg[4])
        /\ \A i \in 1..Len(log[p]) :
              (log[p][i].op = "send-keys-l" /\ i = 4) =>
                  ~HasPromptFlag(log[p][i].arg)

\* C19 witness: --mode auto with a slash prompt on a machine without tmux:
\* the run ended with 2 and spawned nothing.
C19_Witness ==
    /\ pc["a"] = "done"
    /\ cfg["a"].mode = "auto"
    /\ cfg["a"].prompt = P_INIT_DO
    /\ BinFound("a")
    /\ host.os_name = "posix"
    /\ STR_TMUX \notin host.onpath
    /\ rc["a"] = 2
    /\ log["a"] = <<>>

====
